---- MODULE Spec2Model ----
(***************************************************************************)
(* Namespace auditor: the batch processor (internal/auditor/processor.go,  *)
(* cmd/namespace-auditor/main.go), the earlier single-file batch variant   *)
(* (main.go) and the continuous reconciler (api/v1).                       *)
(*                                                                         *)
(* Time is counted in ticks; TicksPerSec ticks make one second, so that    *)
(* the one-second resolution of an RFC-3339 timestamp written by           *)
(* time.Format is visible against the finer resolution of time.Now.        *)
(* A string that is meant to be a timestamp is the record                  *)
(* [text, t]: text = "rfc3339" for a well-formed timestamp of instant t,   *)
(* any other text (t = 0) for a string time.Parse rejects.                 *)
(* An e-mail, a domain and any other string the code splits or folds is a  *)
(* sequence of characters.                                                 *)
(***************************************************************************)
EXTENDS Integers, Sequences, FiniteSets, TLC

VARIABLES store,   \* namespace store: name -> namespace object
          clock,   \* the wall clock, in ticks
          cfg,     \* configuration loaded at start-up (processor fields)
          items,   \* namespaces listed by the running batch pass, not yet processed
          last     \* observation of the last invocation (calls, logs, result)

vars == <<store, clock, cfg, items, last>>

----------------------------------------------------------------------------
(* Bounds *)

TicksPerSec == 3
MaxClock == 3
MaxGrace == 3
MaxStamp == 1
MaxMutations == 4
MaxEmailLen == 4
MaxDomains == 2

----------------------------------------------------------------------------
(* Constants of the program *)

OwnerAnnotation == "owner"
GracePeriodAnnotation == "namespace-auditor/delete-at"
KubeflowLabelKey == "app.kubernetes.io/part-of"
KubeflowLabelValue == "kubeflow-profile"
KubeflowLabel == [key |-> KubeflowLabelKey, value |-> KubeflowLabelValue]
deletionAnnotation == "namespace-auditor/delete-at"
userEmailLabel == "user-email"

----------------------------------------------------------------------------
(* Strings *)

\* strings.ToLower on one character
LowerChar(c) == IF c = "A" THEN "a" ELSE IF c = "B" THEN "b" ELSE IF c = "U" THEN "u" ELSE c

ToLower(s) == [i \in 1..Len(s) |-> LowerChar(s[i])]

\* strings.EqualFold: equality under case folding
EqualFold(s, t) == ToLower(s) = ToLower(t)

\* strings.Split(s, sep) for a one-character separator: the pieces between
\* the separators, Count(sep)+1 of them
RECURSIVE Split(_, _)
Split(s, sep) ==
  IF \A i \in 1..Len(s) : s[i] # sep
  THEN <<s>>
  ELSE LET k == CHOOSE i \in 1..Len(s) : s[i] = sep /\ \A j \in 1..(i-1) : s[j] # sep
       IN <<SubSeq(s, 1, k-1)>> \o Split(SubSeq(s, k+1, Len(s)), sep)

\* mutant: a domain that ends with an allowed domain is accepted
isValidDomain_SuffixMatch(email, allowedDomains) ==
  LET parts == Split(email, "@")
  IN IF Len(parts) # 2 THEN FALSE
     ELSE LET domain == ToLower(parts[2])
          IN \E i \in 1..Len(allowedDomains) :
               LET d == allowedDomains[i]
               IN /\ Len(d) <= Len(domain)
                  /\ EqualFold(SubSeq(domain, Len(domain) - Len(d) + 1, Len(domain)), d)

\* isValidDomain verifies if an email address belongs to an allowed domain
isValidDomain(email, allowedDomains) ==
  LET parts == Split(email, "@")
  IN IF Len(parts) # 2 THEN FALSE
     ELSE LET domain == ToLower(parts[2])
          IN \E i \in 1..Len(allowedDomains) : EqualFold(domain, allowedDomains[i])

----------------------------------------------------------------------------
(* Time *)

EmptyString == [text |-> "", t |-> 0]
Timestamp(t) == [text |-> "rfc3339", t |-> t]

\* mutant: the fraction of a second is rounded up
FormatRFC3339_RoundsUp(now) ==
  Timestamp(IF now % TicksPerSec = 0 THEN now ELSE now - (now % TicksPerSec) + TicksPerSec)

\* now.Format(time.RFC3339): the layout has no fractional seconds
FormatRFC3339(now) == Timestamp(now - (now % TicksPerSec))

\* time.Parse(time.RFC3339, s): accepts fractional seconds, rejects the rest
ParseRFC3339(s) ==
  IF s.text = "rfc3339" THEN [err |-> FALSE, t |-> s.t] ELSE [err |-> TRUE, t |-> 0]

----------------------------------------------------------------------------
(* Maps *)

Has(m, k) == k \in DOMAIN m
Without(m, k) == [x \in (DOMAIN m) \ {k} |-> m[x]]
With(m, k, v) == [x \in (DOMAIN m) \cup {k} |-> IF x = k THEN v ELSE m[x]]

----------------------------------------------------------------------------
(* The namespace store (kubernetes.Interface / client.Client) and the log *)

NewWorld(st) ==
  [store |-> st, calls |-> <<>>, logs |-> <<>>, idCalls |-> 0, err |-> FALSE,
   requeueAfter |-> 0, retErr |-> FALSE, getErr |-> FALSE]

Log(w, msg) == [w EXCEPT !.logs = Append(@, msg)]

\* mutant: an Update of a namespace that is not stored creates it
Update_Upserts(w, ns, ok) ==
  [w EXCEPT !.store = IF ok THEN With(@, ns.Name, ns) ELSE @,
            !.calls = Append(@, [verb |-> "Update", name |-> ns.Name, obj |-> ns]),
            !.err = ~ok]

\* Namespaces().Update: replaces the whole stored object; fails when the
\* namespace is not in the store or when the store refuses (conflict, I/O)
Update(w, ns, ok) ==
  LET accepted == ok /\ ns.Name \in DOMAIN w.store
  IN [w EXCEPT !.store = IF accepted THEN [@ EXCEPT ![ns.Name] = ns] ELSE @,
               !.calls = Append(@, [verb |-> "Update", name |-> ns.Name, obj |-> ns]),
               !.err = ~accepted]

\* mutant: the Delete removes the whole collection of namespaces
Delete_Collection(w, ns, ok) ==
  LET accepted == ok /\ ns.Name \in DOMAIN w.store
  IN [w EXCEPT !.store = IF accepted THEN [n \in {} |-> ns] ELSE @,
               !.calls = Append(@, [verb |-> "Delete", name |-> ns.Name, obj |-> ns]),
               !.err = ~accepted]

\* Namespaces().Delete: removes the namespace by name; fails likewise
Delete(w, ns, ok) ==
  LET accepted == ok /\ ns.Name \in DOMAIN w.store
  IN [w EXCEPT !.store = IF accepted THEN Without(@, ns.Name) ELSE @,
               !.calls = Append(@, [verb |-> "Delete", name |-> ns.Name, obj |-> ns]),
               !.err = ~accepted]

\* UserExistenceChecker.UserExists: one call, outcome res
UserExists(w) == [w EXCEPT !.idCalls = @ + 1]

----------------------------------------------------------------------------
(* internal/auditor/processor.go: NamespaceProcessor p = cfg *)

\* mutant: the marker of an active user is removed only when it parses
handleValidUser_KeepsCorrupt(p, w, ns, ok) ==
  IF Has(ns.Annotations, GracePeriodAnnotation)
     /\ ~ParseRFC3339(ns.Annotations[GracePeriodAnnotation]).err
  THEN LET w1 == Log(w, "Cleaning up grace period annotation")
       IN IF p.dryRun
          THEN Log(w1, "[DRY RUN] Would remove annotation")
          ELSE LET ns1 == [ns EXCEPT !.Annotations = Without(@, GracePeriodAnnotation)]
                   w2 == Update(w1, ns1, ok)
               IN IF w2.err THEN Log(w2, "Error updating") ELSE w2
  ELSE w

\* mutant: the namespace of an active user is written back even when it
\* carries no marker
handleValidUser_AlwaysUpdates(p, w, ns, ok) ==
  LET w1 == Log(w, "Cleaning up grace period annotation")
  IN IF p.dryRun
     THEN Log(w1, "[DRY RUN] Would remove annotation")
     ELSE LET ns1 == [ns EXCEPT !.Annotations = Without(@, GracePeriodAnnotation)]
              w2 == Update(w1, ns1, ok)
          IN IF w2.err THEN Log(w2, "Error updating") ELSE w2

\* handleValidUser cleans up deletion markers for active users
handleValidUser(p, w, ns, ok) ==
  IF Has(ns.Annotations, GracePeriodAnnotation)
  THEN LET w1 == Log(w, "Cleaning up grace period annotation")
       IN IF p.dryRun
          THEN Log(w1, "[DRY RUN] Would remove annotation")
          ELSE LET ns1 == [ns EXCEPT !.Annotations = Without(@, GracePeriodAnnotation)]
                   w2 == Update(w1, ns1, ok)
               IN IF w2.err THEN Log(w2, "Error updating") ELSE w2
  ELSE w

\* mutant: a malformed timestamp gets the namespace deleted
handleInvalidTimestamp_Deletes(p, w, ns, ok) ==
  LET w1 == Log(w, "Invalid timestamp")
  IN IF p.dryRun
     THEN Log(w1, "[DRY RUN] Would remove invalid annotation")
     ELSE LET w2 == Delete(w1, ns, ok)
          IN IF w2.err THEN Log(w2, "Error cleaning") ELSE w2

\* mutant: in dry-run the malformed timestamp is passed over in silence
handleInvalidTimestamp_SilentDryRun(p, w, ns, ok) ==
  LET w1 == Log(w, "Invalid timestamp")
  IN IF p.dryRun
     THEN w1
     ELSE LET ns1 == [ns EXCEPT !.Annotations = Without(@, GracePeriodAnnotation)]
              w2 == Update(w1, ns1, ok)
          IN IF w2.err THEN Log(w2, "Error cleaning") ELSE w2

\* mutant: the malformed timestamp is reported and left in place
handleInvalidTimestamp_OnlyLogs(p, w, ns, ok) ==
  Log(w, "Invalid timestamp")

\* mutant: the malformed timestamp is written back as it was
handleInvalidTimestamp_WritesBack(p, w, ns, ok) ==
  LET w1 == Log(w, "Invalid timestamp")
  IN IF p.dryRun
     THEN Log(w1, "[DRY RUN] Would remove invalid annotation")
     ELSE LET w2 == Update(w1, ns, ok)
          IN IF w2.err THEN Log(w2, "Error cleaning") ELSE w2

\* handleInvalidTimestamp cleans up namespaces with malformed timestamps
handleInvalidTimestamp(p, w, ns, ok) ==
  LET w1 == Log(w, "Invalid timestamp")
  IN IF p.dryRun
     THEN Log(w1, "[DRY RUN] Would remove invalid annotation")
     ELSE LET ns1 == [ns EXCEPT !.Annotations = Without(@, GracePeriodAnnotation)]
              w2 == Update(w1, ns1, ok)
          IN IF w2.err THEN Log(w2, "Error cleaning") ELSE w2

\* mutant: the dry-run flag is not consulted before the Delete
deleteNamespace_IgnoresDryRun(p, w, ns, ok) ==
  LET w1 == Log(w, "Deleting namespace after grace period")
      w2 == Delete(w1, ns, ok)
  IN IF w2.err THEN Log(w2, "Error deleting") ELSE w2

\* deleteNamespace permanently removes a namespace after grace period expiration
deleteNamespace(p, w, ns, ok) ==
  LET w1 == Log(w, "Deleting namespace after grace period")
  IN IF p.dryRun
     THEN Log(w1, "[DRY RUN] Would delete namespace")
     ELSE LET w2 == Delete(w1, ns, ok)
          IN IF w2.err THEN Log(w2, "Error deleting") ELSE w2

\* mutant: the marker is stamped with the deadline instead of the current time
markForDeletion_StampsDeadline(p, w, ns, now, ok) ==
  LET w1 == Log(w, "Marking namespace for deletion")
  IN IF p.dryRun
     THEN Log(w1, "[DRY RUN] Would add deletion annotation")
     ELSE LET ns1 == [ns EXCEPT !.Annotations =
                        With(@, GracePeriodAnnotation, FormatRFC3339(now + p.gracePeriod + TicksPerSec))]
              w2 == Update(w1, ns1, ok)
          IN IF w2.err THEN Log(w2, "Error marking") ELSE w2

\* mutant: with a zero grace period the freshly marked namespace is deleted
\* in the same invocation
markForDeletion_ThenDeletes(p, w, ns, now, ok) ==
  LET w1 == Log(w, "Marking namespace for deletion")
  IN IF p.dryRun
     THEN Log(w1, "[DRY RUN] Would add deletion annotation")
     ELSE LET ns1 == [ns EXCEPT !.Annotations = With(@, GracePeriodAnnotation, FormatRFC3339(now))]
              w2 == Update(w1, ns1, ok)
          IN IF w2.err THEN Log(w2, "Error marking")
             ELSE IF p.gracePeriod = 0 THEN Delete(w2, ns1, ok) ELSE w2

\* mutant: a refused Update is submitted a second time
markForDeletion_RetriesOnConflict(p, w, ns, now, ok) ==
  LET w1 == Log(w, "Marking namespace for deletion")
  IN IF p.dryRun
     THEN Log(w1, "[DRY RUN] Would add deletion annotation")
     ELSE LET ns1 == [ns EXCEPT !.Annotations = With(@, GracePeriodAnnotation, FormatRFC3339(now))]
              w2 == Update(w1, ns1, ok)
          IN IF w2.err THEN Update(Log(w2, "Error marking"), ns1, TRUE) ELSE w2

\* mutant: the marker is submitted on a namespace stripped of its other annotations
markForDeletion_FreshAnnotations(p, w, ns, now, ok) ==
  LET w1 == Log(w, "Marking namespace for deletion")
  IN IF p.dryRun
     THEN Log(w1, "[DRY RUN] Would add deletion annotation")
     ELSE LET ns1 == [ns EXCEPT !.Annotations =
                        [k \in {GracePeriodAnnotation} |-> FormatRFC3339(now)]]
              w2 == Update(w1, ns1, ok)
          IN IF w2.err THEN Log(w2, "Error marking") ELSE w2

\* markForDeletion annotates a namespace with a deletion timestamp
markForDeletion(p, w, ns, now, ok) ==
  LET w1 == Log(w, "Marking namespace for deletion")
  IN IF p.dryRun
     THEN Log(w1, "[DRY RUN] Would add deletion annotation")
     ELSE LET ns1 == [ns EXCEPT !.Annotations = With(@, GracePeriodAnnotation, FormatRFC3339(now))]
              w2 == Update(w1, ns1, ok)
          IN IF w2.err THEN Log(w2, "Error marking") ELSE w2

\* mutant: the grace period is not added to the marker time
handleInvalidUser_ForgetsGrace(p, w, ns, now, ok) ==
  IF Has(ns.Annotations, GracePeriodAnnotation)
  THEN LET parsed == ParseRFC3339(ns.Annotations[GracePeriodAnnotation])
       IN IF parsed.err
          THEN handleInvalidTimestamp(p, w, ns, ok)
          ELSE IF now > parsed.t
               THEN deleteNamespace(p, w, ns, ok)
               ELSE w
  ELSE markForDeletion(p, w, ns, now, ok)

\* mutant: a marked namespace is deleted without the grace period test
handleInvalidUser_NoGraceTest(p, w, ns, now, ok) ==
  IF Has(ns.Annotations, GracePeriodAnnotation)
  THEN LET parsed == ParseRFC3339(ns.Annotations[GracePeriodAnnotation])
       IN IF parsed.err
          THEN handleInvalidTimestamp(p, w, ns, ok)
          ELSE deleteNamespace(p, w, ns, ok)
  ELSE markForDeletion(p, w, ns, now, ok)

\* mutant: a pending marker is stamped again at every evaluation
handleInvalidUser_ResetsTimer(p, w, ns, now, ok) ==
  IF Has(ns.Annotations, GracePeriodAnnotation)
  THEN LET parsed == ParseRFC3339(ns.Annotations[GracePeriodAnnotation])
       IN IF parsed.err
          THEN handleInvalidTimestamp(p, w, ns, ok)
          ELSE IF now > parsed.t + p.gracePeriod
               THEN deleteNamespace(p, w, ns, ok)
               ELSE markForDeletion(p, w, ns, now, ok)
  ELSE markForDeletion(p, w, ns, now, ok)

\* handleInvalidUser manages namespaces with unverified users
handleInvalidUser(p, w, ns, now, ok) ==
  IF Has(ns.Annotations, GracePeriodAnnotation)
  THEN LET parsed == ParseRFC3339(ns.Annotations[GracePeriodAnnotation])
       IN IF parsed.err
          THEN handleInvalidTimestamp(p, w, ns, ok)
          ELSE IF now > parsed.t + p.gracePeriod    \* now.After(deleteTime.Add(p.gracePeriod))
               THEN deleteNamespace(p, w, ns, ok)
               ELSE w
  ELSE markForDeletion(p, w, ns, now, ok)

\* mutant: the domain of the owner is not validated
ProcessNamespace_NoDomainCheck(p, w, ns, res, now, ok) ==
  IF ~Has(ns.Annotations, OwnerAnnotation) \/ ns.Annotations[OwnerAnnotation] = <<>>
  THEN Log(w, "Skipping: missing owner annotation")
  ELSE LET w1 == UserExists(w)
       IN IF res = "error"
          THEN Log(w1, "Error checking user")
          ELSE IF res = "exists"
               THEN handleValidUser(p, w1, ns, ok)
               ELSE handleInvalidUser(p, w1, ns, now, ok)

\* mutant: an identity-checker error is taken for "user does not exist"
ProcessNamespace_ErrorMeansAbsent(p, w, ns, res, now, ok) ==
  IF ~Has(ns.Annotations, OwnerAnnotation) \/ ns.Annotations[OwnerAnnotation] = <<>>
  THEN Log(w, "Skipping: missing owner annotation")
  ELSE IF ~isValidDomain(ns.Annotations[OwnerAnnotation], p.allowedDomains)
  THEN Log(w, "Skipping: invalid domain for email")
  ELSE LET w1 == UserExists(w)
       IN IF res = "exists"
          THEN handleValidUser(p, w1, ns, ok)
          ELSE handleInvalidUser(p, w1, ns, now, ok)

\* ProcessNamespace executes the complete namespace audit workflow;
\* res is the outcome of the one UserExists call it may make
ProcessNamespace(p, w, ns, res, now, ok) ==
  IF ~Has(ns.Annotations, OwnerAnnotation) \/ ns.Annotations[OwnerAnnotation] = <<>>
  THEN Log(w, "Skipping: missing owner annotation")
  ELSE IF ~isValidDomain(ns.Annotations[OwnerAnnotation], p.allowedDomains)
  THEN Log(w, "Skipping: invalid domain for email")
  ELSE LET w1 == UserExists(w)
       IN IF res = "error"
          THEN Log(w1, "Error checking user")
          ELSE IF res = "exists"
               THEN handleValidUser(p, w1, ns, ok)
               ELSE handleInvalidUser(p, w1, ns, now, ok)

\* ListNamespaces retrieves the namespaces matching the label selector,
\* in the order of their names
SortedNames == <<"ns1", "ns2">>

MatchesSelector(ns, labelSelector) ==
  Has(ns.Labels, labelSelector.key) /\ ns.Labels[labelSelector.key] = labelSelector.value

RECURSIVE ListFrom(_, _, _)
ListFrom(st, labelSelector, i) ==
  IF i > Len(SortedNames) THEN <<>>
  ELSE LET n == SortedNames[i]
       IN (IF n \in DOMAIN st /\ MatchesSelector(st[n], labelSelector) THEN <<st[n]>> ELSE <<>>)
          \o ListFrom(st, labelSelector, i + 1)

\* mutant: the label selector is not given to the List call
ListNamespaces_IgnoresSelector(st, labelSelector) ==
  [i \in 1..Cardinality({k \in 1..Len(SortedNames) : SortedNames[k] \in DOMAIN st}) |->
     st[SortedNames[CHOOSE k \in 1..Len(SortedNames) :
          /\ SortedNames[k] \in DOMAIN st
          /\ Cardinality({j \in 1..k : SortedNames[j] \in DOMAIN st}) = i]]]

ListNamespaces(st, labelSelector) == ListFrom(st, labelSelector, 1)

----------------------------------------------------------------------------
(* main.go: the single-file batch variant; gcNil: the Graph client is nil *)

\* handleValidUser cleans up deletion markers from valid namespaces
main_handleValidUser(w, ns, dryRun, ok) ==
  IF Has(ns.Annotations, GracePeriodAnnotation)
  THEN LET w1 == Log(w, "Valid user found, removing deletion marker")
       IN IF dryRun
          THEN Log(w1, "[DRY RUN] Would remove annotation")
          ELSE LET ns1 == [ns EXCEPT !.Annotations = Without(@, GracePeriodAnnotation)]
                   w2 == Update(w1, ns1, ok)
               IN IF w2.err THEN Log(w2, "Error updating") ELSE w2
  ELSE w

\* handleInvalidUser manages namespaces with invalid/missing users
main_handleInvalidUser(w, ns, gracePeriod, dryRun, now, ok) ==
  IF Has(ns.Annotations, GracePeriodAnnotation)
  THEN LET parsed == ParseRFC3339(ns.Annotations[GracePeriodAnnotation])
       IN IF parsed.err
          THEN LET w1 == Log(w, "Invalid timestamp")
               IN IF dryRun
                  THEN Log(w1, "[DRY RUN] Would remove invalid annotation")
                  ELSE LET ns1 == [ns EXCEPT !.Annotations = Without(@, GracePeriodAnnotation)]
                           w2 == Update(w1, ns1, ok)
                       IN IF w2.err THEN Log(w2, "Error cleaning") ELSE w2
          ELSE IF now > parsed.t + gracePeriod    \* now.After(deleteTime.Add(gracePeriod))
               THEN LET w1 == Log(w, "Deleting after grace period")
                    IN IF dryRun
                       THEN Log(w1, "[DRY RUN] Would delete namespace")
                       ELSE LET w2 == Delete(w1, ns, ok)
                            IN IF w2.err THEN Log(w2, "Error deleting") ELSE w2
               ELSE w
  ELSE LET w1 == Log(w, "Marking for deletion")
       IN IF dryRun
          THEN Log(w1, "[DRY RUN] Would add deletion annotation")
          ELSE LET ns1 == [ns EXCEPT !.Annotations = With(@, GracePeriodAnnotation, FormatRFC3339(now))]
                   w2 == Update(w1, ns1, ok)
               IN IF w2.err THEN Log(w2, "Error marking") ELSE w2

\* processNamespace handles validation and processing of a single namespace
main_processNamespace(ns, gcNil, w, gracePeriod, allowedDomains, dryRun, res, now, ok) ==
  IF ~Has(ns.Annotations, OwnerAnnotation) \/ ns.Annotations[OwnerAnnotation] = <<>>
  THEN Log(w, "Skipping: missing owner annotation")
  ELSE IF ~isValidDomain(ns.Annotations[OwnerAnnotation], allowedDomains)
  THEN Log(w, "Skipping: invalid domain for email")
  ELSE LET w1 == IF gcNil THEN w ELSE UserExists(w)
           existsInEntra == IF gcNil THEN TRUE ELSE res = "exists"
       IN IF ~gcNil /\ res = "error"
          THEN Log(w1, "Error checking user")
          ELSE IF existsInEntra
               THEN main_handleValidUser(w1, ns, dryRun, ok)
               ELSE main_handleInvalidUser(w1, ns, gracePeriod, dryRun, now, ok)

----------------------------------------------------------------------------
(* api/v1/namespace_controller.go: the continuous reconciler *)

\* mutant: the error is logged and not returned to the host
ReturnErr_Swallowed(w) == w

ReturnErr(w) == [w EXCEPT !.retErr = TRUE]
RequeueAfter(w, d) == [w EXCEPT !.requeueAfter = d]

\* r.Get failed with an error other than not-found: the error is returned
GetFailed(w) == [w EXCEPT !.retErr = TRUE, !.getErr = TRUE]

\* mutant: a namespace that is gone is reported as an error
Reconcile_NotFoundIsError(GracePeriod, w, name, getOk, res, now, now2, ok) ==
  IF ~getOk
  THEN GetFailed(w)
  ELSE IF name \notin DOMAIN w.store
  THEN ReturnErr(w)
  ELSE LET ns == w.store[name]
       IN IF ns.DeletionTimestamp
          THEN Log(w, "Namespace is already being deleted, skipping")
          ELSE IF ~Has(ns.Labels, userEmailLabel) \/ ns.Labels[userEmailLabel] = <<>>
          THEN w
          ELSE LET w1 == UserExists(w)
                   currentAnnotation == IF Has(ns.Annotations, deletionAnnotation)
                                        THEN ns.Annotations[deletionAnnotation]
                                        ELSE EmptyString
                   without == [ns EXCEPT !.Annotations = Without(@, deletionAnnotation)]
                   parsed == ParseRFC3339(currentAnnotation)
               IN IF res = "error"
                  THEN ReturnErr(Log(w1, "Failed to check user existence"))
                  ELSE IF res = "exists"
                  THEN IF currentAnnotation # EmptyString
                       THEN LET w2 == Update(w1, without, ok)
                            IN IF w2.err
                               THEN ReturnErr(Log(w2, "Failed to remove deletion annotation"))
                               ELSE Log(w2, "User restored, removed deletion annotation")
                       ELSE w1
                  ELSE IF currentAnnotation = EmptyString
                  THEN LET marked == [ns EXCEPT !.Annotations =
                                        With(@, deletionAnnotation, FormatRFC3339(now))]
                           w2 == Update(w1, marked, ok)
                       IN IF w2.err
                          THEN ReturnErr(Log(w2, "Failed to mark namespace for deletion"))
                          ELSE RequeueAfter(Log(w2, "Marked namespace for deletion"), GracePeriod)
                  ELSE IF parsed.err
                  THEN LET w2 == Update(Log(w1, "Invalid deletion timestamp, removing annotation"),
                                        without, ok)
                       IN IF w2.err
                          THEN ReturnErr(Log(w2, "Failed to clean invalid annotation"))
                          ELSE w2
                  ELSE IF now - parsed.t >= GracePeriod     \* time.Since(deleteTime) >= r.GracePeriod
                  THEN LET w2 == Delete(Log(w1, "Deleting namespace after grace period"), ns, ok)
                       IN IF w2.err
                          THEN ReturnErr(Log(w2, "Failed to delete namespace"))
                          ELSE w2
                  ELSE RequeueAfter(w1, parsed.t + GracePeriod - now2)

\* mutant: a namespace that is being deleted is reconciled like any other
Reconcile_IgnoresDeletionTimestamp(GracePeriod, w, name, getOk, res, now, now2, ok) ==
  IF ~getOk
  THEN GetFailed(w)                            \* return reconcile.Result{}, err
  ELSE IF name \notin DOMAIN w.store
  THEN w                                       \* errors.IsNotFound
  ELSE LET ns == w.store[name]
       IN IF FALSE
          THEN Log(w, "Namespace is already being deleted, skipping")
          ELSE IF ~Has(ns.Labels, userEmailLabel) \/ ns.Labels[userEmailLabel] = <<>>
          THEN w
          ELSE LET w1 == UserExists(w)
                   currentAnnotation == IF Has(ns.Annotations, deletionAnnotation)
                                        THEN ns.Annotations[deletionAnnotation]
                                        ELSE EmptyString
                   without == [ns EXCEPT !.Annotations = Without(@, deletionAnnotation)]
                   parsed == ParseRFC3339(currentAnnotation)
               IN IF res = "error"
                  THEN ReturnErr(Log(w1, "Failed to check user existence"))
                  ELSE IF res = "exists"
                  THEN IF currentAnnotation # EmptyString
                       THEN LET w2 == Update(w1, without, ok)
                            IN IF w2.err
                               THEN ReturnErr(Log(w2, "Failed to remove deletion annotation"))
                               ELSE Log(w2, "User restored, removed deletion annotation")
                       ELSE w1
                  ELSE IF currentAnnotation = EmptyString
                  THEN LET marked == [ns EXCEPT !.Annotations =
                                        With(@, deletionAnnotation, FormatRFC3339(now))]
                           w2 == Update(w1, marked, ok)
                       IN IF w2.err
                          THEN ReturnErr(Log(w2, "Failed to mark namespace for deletion"))
                          ELSE RequeueAfter(Log(w2, "Marked namespace for deletion"), GracePeriod)
                  ELSE IF parsed.err
                  THEN LET w2 == Update(Log(w1, "Invalid deletion timestamp, removing annotation"),
                                        without, ok)
                       IN IF w2.err
                          THEN ReturnErr(Log(w2, "Failed to clean invalid annotation"))
                          ELSE w2
                  ELSE IF now - parsed.t >= GracePeriod     \* time.Since(deleteTime) >= r.GracePeriod
                  THEN LET w2 == Delete(Log(w1, "Deleting namespace after grace period"), ns, ok)
                       IN IF w2.err
                          THEN ReturnErr(Log(w2, "Failed to delete namespace"))
                          ELSE w2
                  ELSE RequeueAfter(w1, parsed.t + GracePeriod - now2)

\* Reconcile of the request for namespace name; getOk is false when r.Get
\* fails with an error other than not-found; now is the clock read by
\* time.Since / the first time.Now, now2 the clock read by the last time.Now
Reconcile(GracePeriod, w, name, getOk, res, now, now2, ok) ==
  IF ~getOk
  THEN GetFailed(w)                            \* return reconcile.Result{}, err
  ELSE IF name \notin DOMAIN w.store
  THEN w                                       \* errors.IsNotFound
  ELSE LET ns == w.store[name]
       IN IF ns.DeletionTimestamp
          THEN Log(w, "Namespace is already being deleted, skipping")
          ELSE IF ~Has(ns.Labels, userEmailLabel) \/ ns.Labels[userEmailLabel] = <<>>
          THEN w
          ELSE LET w1 == UserExists(w)
                   currentAnnotation == IF Has(ns.Annotations, deletionAnnotation)
                                        THEN ns.Annotations[deletionAnnotation]
                                        ELSE EmptyString
                   without == [ns EXCEPT !.Annotations = Without(@, deletionAnnotation)]
                   parsed == ParseRFC3339(currentAnnotation)
               IN IF res = "error"
                  THEN ReturnErr(Log(w1, "Failed to check user existence"))
                  ELSE IF res = "exists"
                  THEN IF currentAnnotation # EmptyString
                       THEN LET w2 == Update(w1, without, ok)
                            IN IF w2.err
                               THEN ReturnErr(Log(w2, "Failed to remove deletion annotation"))
                               ELSE Log(w2, "User restored, removed deletion annotation")
                       ELSE w1
                  ELSE IF currentAnnotation = EmptyString
                  THEN LET marked == [ns EXCEPT !.Annotations =
                                        With(@, deletionAnnotation, FormatRFC3339(now))]
                           w2 == Update(w1, marked, ok)
                       IN IF w2.err
                          THEN ReturnErr(Log(w2, "Failed to mark namespace for deletion"))
                          ELSE RequeueAfter(Log(w2, "Marked namespace for deletion"), GracePeriod)
                  ELSE IF parsed.err
                  THEN LET w2 == Update(Log(w1, "Invalid deletion timestamp, removing annotation"),
                                        without, ok)
                       IN IF w2.err
                          THEN ReturnErr(Log(w2, "Failed to clean invalid annotation"))
                          ELSE w2
                  ELSE IF now - parsed.t >= GracePeriod     \* time.Since(deleteTime) >= r.GracePeriod
                  THEN LET w2 == Delete(Log(w1, "Deleting namespace after grace period"), ns, ok)
                       IN IF w2.err
                          THEN ReturnErr(Log(w2, "Failed to delete namespace"))
                          ELSE w2
                  ELSE RequeueAfter(w1, parsed.t + GracePeriod - now2)

----------------------------------------------------------------------------
(* The state machine *)

Optional(S) == {{}} \cup {{x} : x \in S}
TheOne(S) == CHOOSE x \in S : TRUE

EmailValid == <<"u", "@", "a">>
EmailUpper == <<"U", "@", "A">>
EmailOtherDomain == <<"u", "@", "b">>
EmailNoAt == <<"u">>
AllowedDomains == << <<"a">> >>

InitOwners == {EmailValid, EmailUpper, EmailOtherDomain, EmailNoAt, <<>>}
InvalidTime == [text |-> "invalid-time", t |-> 0]
InitMarkers == {EmptyString, InvalidTime} \cup {Timestamp(t) : t \in 0..MaxStamp}
UserExistsOutcomes == {"exists", "absent", "error"}

MkAnnotations(o, m) ==
  [k \in (IF o = {} THEN {} ELSE {OwnerAnnotation}) \cup (IF m = {} THEN {} ELSE {GracePeriodAnnotation})
     |-> IF k = OwnerAnnotation THEN TheOne(o) ELSE TheOne(m)]

MkLabels(kubeflow, e) ==
  [k \in (IF kubeflow THEN {KubeflowLabelKey} ELSE {}) \cup (IF e = {} THEN {} ELSE {userEmailLabel})
     |-> IF k = KubeflowLabelKey THEN KubeflowLabelValue ELSE TheOne(e)]

Namespace(name, o, m, kubeflow, e) ==
  [Name |-> name, Annotations |-> MkAnnotations(o, m), Labels |-> MkLabels(kubeflow, e),
   DeletionTimestamp |-> FALSE]

\* a namespace a batch pass may meet: any owner, any marker, profile or not
InitNamespaces(name) ==
  {Namespace(name, o, m, kubeflow, {}) :
     o \in Optional(InitOwners), m \in Optional(InitMarkers), kubeflow \in BOOLEAN}

InitStores == {[n \in {"ns1"} |-> a] : a \in InitNamespaces("ns1")}

\* a namespace the reconciler may be asked about: user-email label or not,
\* any marker, terminating or not
InitNamespacesRec(name) ==
  {[Namespace(name, {EmailValid}, m, FALSE, e) EXCEPT !.DeletionTimestamp = dt] :
     m \in Optional(InitMarkers), e \in Optional({EmailValid, <<>>}), dt \in BOOLEAN}

InitStoresRec == {[n \in {"ns1"} |-> a] : a \in InitNamespacesRec("ns1")}

NoNamespace == [Name |-> "", Annotations |-> <<>>, Labels |-> <<>>, DeletionTimestamp |-> FALSE]

NoInvocation ==
  [op |-> "none", ns |-> NoNamespace, stored |-> {}, after |-> {}, res |-> "none", now |-> 0,
   calls |-> <<>>, logs |-> <<>>, idCalls |-> 0, err |-> FALSE,
   requeueAfter |-> 0, retErr |-> FALSE, getErr |-> FALSE]

Stored(st, name) == IF name \in DOMAIN st THEN {st[name]} ELSE {}

\* what an invocation leaves to be observed: the object it was given, the
\* stored object before and after, the identity outcome res (consulted or
\* not), the clock it read, the store calls, the log, the result
Observe(op, ns, res, w) ==
  [op |-> op, ns |-> ns, stored |-> Stored(store, ns.Name), after |-> Stored(w.store, ns.Name),
   res |-> res, now |-> clock,
   calls |-> w.calls, logs |-> w.logs, idCalls |-> w.idCalls, err |-> w.err,
   requeueAfter |-> w.requeueAfter, retErr |-> w.retErr, getErr |-> w.getErr]

InitConfig ==
  cfg \in [gracePeriod : 0..MaxGrace, allowedDomains : {AllowedDomains}, dryRun : BOOLEAN]

Init ==
  /\ store \in InitStores
  /\ clock = 0
  /\ InitConfig
  /\ items = <<>>
  /\ last = NoInvocation

\* the reconciler has no dry-run mode
InitRec ==
  /\ store \in InitStoresRec
  /\ clock = 0
  /\ InitConfig
  /\ ~cfg.dryRun
  /\ items = <<>>
  /\ last = NoInvocation

\* cmd/namespace-auditor/main.go processNamespaces: the listing that starts a pass
StartPass ==
  /\ items = <<>>
  /\ items' = ListNamespaces(store, KubeflowLabel)
  /\ UNCHANGED <<store, clock, cfg, last>>

\* mutant: a failing store call ends the pass
processNamespaces_StopsOnError ==
  /\ items # <<>>
  /\ \E res \in UserExistsOutcomes, ok \in BOOLEAN :
       LET ns == Head(items)
           w == ProcessNamespace(cfg, NewWorld(store), ns, res, clock, ok)
       IN /\ store' = w.store
          /\ last' = Observe("ProcessNamespace", ns, res, w)
          /\ items' = IF w.err THEN <<>> ELSE Tail(items)
  /\ UNCHANGED <<clock, cfg>>

\* mutant: after a failed store call the processor switches itself to dry-run
processNamespaces_LatchesDryRun ==
  /\ items # <<>>
  /\ \E res \in UserExistsOutcomes, ok \in BOOLEAN :
       LET ns == Head(items)
           w == ProcessNamespace(cfg, NewWorld(store), ns, res, clock, ok)
       IN /\ store' = w.store
          /\ last' = Observe("ProcessNamespace", ns, res, w)
          /\ cfg' = [cfg EXCEPT !.dryRun = @ \/ w.err]
  /\ items' = Tail(items)
  /\ UNCHANGED clock

\* cmd/namespace-auditor/main.go processNamespaces: one iteration of the loop
processNamespaces ==
  /\ items # <<>>
  /\ \E res \in UserExistsOutcomes, ok \in BOOLEAN :
       LET ns == Head(items)
           w == ProcessNamespace(cfg, NewWorld(store), ns, res, clock, ok)
       IN /\ store' = w.store
          /\ last' = Observe("ProcessNamespace", ns, res, w)
  /\ items' = Tail(items)
  /\ UNCHANGED <<clock, cfg>>

\* main.go main: one iteration of the loop; the Graph client is nil in dry-run
main ==
  /\ items # <<>>
  /\ \E res \in UserExistsOutcomes, ok \in BOOLEAN :
       LET ns == Head(items)
           w == main_processNamespace(ns, cfg.dryRun, NewWorld(store), cfg.gracePeriod,
                                      cfg.allowedDomains, cfg.dryRun, res, clock, ok)
       IN /\ store' = w.store
          /\ last' = Observe("processNamespace", ns, res, w)
  /\ items' = Tail(items)
  /\ UNCHANGED <<clock, cfg>>

\* the host invokes the reconciler for a namespace key
ReconcileRequest ==
  \E name \in {"ns1", "ns2"}, getOk \in BOOLEAN, res \in UserExistsOutcomes, ok \in BOOLEAN,
     d \in 0..1 :
    /\ clock + d <= MaxClock
    /\ LET w == Reconcile(cfg.gracePeriod, NewWorld(store), name, getOk, res, clock, clock + d, ok)
           ns == IF name \in DOMAIN store THEN store[name] ELSE [NoNamespace EXCEPT !.Name = name]
       IN /\ store' = w.store
          /\ last' = Observe("Reconcile", ns, res, w)
    /\ clock' = clock + d
    /\ UNCHANGED <<cfg, items>>

Tick ==
  /\ clock < MaxClock
  /\ clock' = clock + 1
  /\ UNCHANGED <<store, cfg, items, last>>

\* somebody else deletes a namespace
ExternalDelete ==
  \E name \in DOMAIN store :
    /\ store' = Without(store, name)
    /\ UNCHANGED <<clock, cfg, items, last>>

\* the batch processor of internal/auditor, run by cmd/namespace-auditor
Next == StartPass \/ processNamespaces \/ Tick \/ ExternalDelete

Spec == Init /\ [][Next]_vars

\* the single-file batch variant of main.go
NextMain == StartPass \/ main \/ Tick \/ ExternalDelete

SpecMain == Init /\ [][NextMain]_vars

\* the continuous reconciler of api/v1
NextRec == ReconcileRequest \/ Tick \/ ExternalDelete

SpecRec == InitRec /\ [][NextRec]_vars

\* cmd/namespace-auditor/main.go processNamespaces: the loop run to its end
\* over the listed namespaces nss, with the identity outcome resOf[name] and
\* the store's acceptance okOf[name] for each namespace, at clock now
RECURSIVE RunPass(_, _, _, _, _, _)
RunPass(p, st, nss, resOf, okOf, now) ==
  IF nss = <<>> THEN st
  ELSE LET ns == Head(nss)
           w == ProcessNamespace(p, NewWorld(st), ns, resOf[ns.Name], now, okOf[ns.Name])
       IN RunPass(p, w.store, Tail(nss), resOf, okOf, now)

\* a batch pass over a cluster of two namespaces: profile or not, owner of
\* an allowed domain or not, unmarked or with a corrupt or a valid marker
PassOwners == {EmailValid, EmailOtherDomain}
PassMarkers == {InvalidTime, Timestamp(0)}

InitNamespacesPass(name) ==
  {Namespace(name, {o}, m, kubeflow, {}) :
     o \in PassOwners, m \in Optional(PassMarkers), kubeflow \in BOOLEAN}

InitStoresPass ==
  {[n \in {"ns1", "ns2"} |-> IF n = "ns1" THEN a ELSE b] :
     a \in InitNamespacesPass("ns1"), b \in InitNamespacesPass("ns2")}

InitPass ==
  /\ store \in InitStoresPass
  /\ clock = 0
  /\ InitConfig
  /\ ~cfg.dryRun
  /\ items = <<>>
  /\ last = NoInvocation

SpecPass == InitPass /\ [][Next]_vars

\* the loop of processNamespaces takes the next listed namespace
LoopAdvance == items # <<>> /\ items' = Tail(items)

\* the loop has nothing to wait for, so it does go on to the next listed
\* namespace: the steps of the pass that advance the list are the steps of
\* processNamespaces, enabled whenever the list is not empty
SpecPassFair == SpecPass /\ WF_items(LoopAdvance)

\* isValidDomain applied to any e-mail and any list of allowed domains
SeqsUpTo(S, n) == UNION {[1..k -> S] : k \in 0..n}
EmailChars == {"u", "@", "a", "A", "."}
DomainEntries == {<<"a">>, <<"A">>, <<"u", ".", "a">>, <<>>}

InitDomain ==
  /\ \E e \in SeqsUpTo(EmailChars, MaxEmailLen) :
       store = [n \in {"ns1"} |-> Namespace("ns1", {e}, {}, TRUE, {})]
  /\ clock = 0
  /\ cfg \in [gracePeriod : {0}, allowedDomains : SeqsUpTo(DomainEntries, MaxDomains),
               dryRun : {FALSE}]
  /\ items = <<>>
  /\ last = NoInvocation

\* ProcessNamespace's call isValidDomain(email, p.allowedDomains)
CallIsValidDomain ==
  /\ last = NoInvocation
  /\ LET email == store["ns1"].Annotations[OwnerAnnotation]
     IN last' = [op |-> "isValidDomain", email |-> email, allowedDomains |-> cfg.allowedDomains,
                 valid |-> isValidDomain(email, cfg.allowedDomains)]
  /\ UNCHANGED <<store, clock, cfg, items>>

NextDomain == CallIsValidDomain

SpecDomain == InitDomain /\ [][NextDomain]_vars

\* ProcessNamespace(ctx, ns) called with a context of the caller's that is
\* cancelled at cancelAt.  ctx goes to UserExists only, which fails on a
\* cancelled context; the handlers take no context and make their store
\* calls under context.TODO(), which is never cancelled
CancelPoints == {"never", "before UserExists", "after UserExists"}

ProcessNamespaceCtx(p, w, ns, res, now, ok, cancelAt) ==
  ProcessNamespace(p, w, ns, IF cancelAt = "before UserExists" THEN "error" ELSE res, now, ok)

\* a caller invokes ProcessNamespace on the next listed namespace
ProcessNamespaceCall ==
  /\ items # <<>>
  /\ \E res \in UserExistsOutcomes, ok \in BOOLEAN, cancelAt \in CancelPoints :
       LET ns == Head(items)
           w == ProcessNamespaceCtx(cfg, NewWorld(store), ns, res, clock, ok, cancelAt)
           r == IF cancelAt = "before UserExists" THEN "error" ELSE res
       IN /\ store' = w.store
          /\ last' = Observe("ProcessNamespace(ctx)", ns, r, w) @@ [cancelAt |-> cancelAt]
  /\ items' = Tail(items)
  /\ UNCHANGED <<clock, cfg>>

NextCtx == StartPass \/ ProcessNamespaceCall \/ Tick \/ ExternalDelete

SpecCtx == Init /\ [][NextCtx]_vars

\* the periodic batch job on an orphaned profile: one labelled namespace
\* whose owner is of an allowed domain, any marker, dry-run off
InitReclaim ==
  /\ store \in {[n \in {"ns1"} |-> Namespace("ns1", {o}, m, TRUE, {})] :
                  o \in {EmailValid, EmailUpper}, m \in Optional(InitMarkers)}
  /\ clock = 0
  /\ InitConfig
  /\ ~cfg.dryRun
  /\ items = <<>>
  /\ last = NoInvocation

\* one iteration of the loop while the identity checker answers (false, nil)
\* and the store accepts the call
processNamespacesOrphan ==
  /\ processNamespaces
  /\ last'.res = "absent"
  /\ ~last'.err

\* a marker that parses and whose grace period the clock has not yet passed
PendingIn(st) ==
  \E n \in DOMAIN st :
    /\ Has(st[n].Annotations, GracePeriodAnnotation)
    /\ ~ParseRFC3339(st[n].Annotations[GracePeriodAnnotation]).err
    /\ clock <= ParseRFC3339(st[n].Annotations[GracePeriodAnnotation]).t + cfg.gracePeriod

\* the clock advances without bound: followed up to MaxClock, and further
\* for as long as a grace period is running
ClockRuns ==
  /\ clock < MaxClock \/ PendingIn(store)
  /\ clock' = clock + 1
  /\ UNCHANGED <<store, cfg, items, last>>

NextReclaim == StartPass \/ processNamespacesOrphan \/ ClockRuns

SpecReclaim == InitReclaim /\ [][NextReclaim]_vars

\* the job is triggered again and again, each pass runs to its end, time passes
SpecReclaimFair ==
  SpecReclaim /\ WF_vars(StartPass) /\ WF_items(LoopAdvance) /\ WF_clock(ClockRuns)

\* the batch process from the start of main to its end: cfg carries, besides
\* the configuration, the environment the process was started in (does
\* GRACE_PERIOD parse, is each credential set), the variant of main that is
\* run, the point the process is at and the number of List calls it made
Variants == {"cmd/namespace-auditor", "main.go"}

ConfigFailures ==
  {"log.Fatalf: Invalid duration format", "log.Fatalf: Failed to create Kubernetes client",
   "panic: Failed to create Azure credentials"}

ExitPoints == ConfigFailures \cup {"log.Fatalf: Failed to list namespaces"}

InitProc ==
  /\ store \in {[n \in {"ns1"} |-> Namespace("ns1", {EmailValid}, m, TRUE, {})] :
                  m \in Optional({Timestamp(0), InvalidTime})}
  /\ clock = 0
  /\ cfg \in [gracePeriod : 0..MaxGrace, allowedDomains : {AllowedDomains}, dryRun : BOOLEAN,
              variant : Variants, GRACE_PERIOD : BOOLEAN, AZURE_TENANT_ID : BOOLEAN,
              AZURE_CLIENT_ID : BOOLEAN, AZURE_CLIENT_SECRET : BOOLEAN,
              at : {"main"}, listCalls : {0}]
  /\ ~cfg.GRACE_PERIOD => cfg.gracePeriod = 0
  /\ items = <<>>
  /\ last = NoInvocation

\* azidentity.NewClientSecretCredential as called by NewGraphClient: the
\* repository hands over the three strings unchecked; the library accepts
\* three set values, rejects three empty ones, and its answer to a partly
\* set triple (lenient) is not the repository's to decide
NewGraphClientPanics(env, lenient) ==
  IF env.AZURE_TENANT_ID /\ env.AZURE_CLIENT_ID /\ env.AZURE_CLIENT_SECRET THEN FALSE
  ELSE IF ~env.AZURE_TENANT_ID /\ ~env.AZURE_CLIENT_ID /\ ~env.AZURE_CLIENT_SECRET THEN TRUE
  ELSE ~lenient

\* main up to the call that lists the namespaces: mustParseDuration, the
\* Kubernetes client, NewGraphClient (skipped by main.go in dry-run)
Startup ==
  /\ cfg.at = "main"
  /\ \E k8sOk \in BOOLEAN, lenient \in BOOLEAN :
       cfg' = [cfg EXCEPT !.at =
                 IF ~cfg.GRACE_PERIOD THEN "log.Fatalf: Invalid duration format"
                 ELSE IF ~k8sOk THEN "log.Fatalf: Failed to create Kubernetes client"
                 ELSE IF (cfg.variant = "cmd/namespace-auditor" \/ ~cfg.dryRun)
                         /\ NewGraphClientPanics(cfg, lenient)
                 THEN "panic: Failed to create Azure credentials"
                 ELSE "processNamespaces"]
  /\ UNCHANGED <<store, clock, items, last>>

\* the List call of the pass: log.Fatalf when it fails
ListCall ==
  /\ cfg.at = "processNamespaces"
  /\ \E listOk \in BOOLEAN :
       IF listOk
       THEN /\ items' = ListNamespaces(store, KubeflowLabel)
            /\ cfg' = [cfg EXCEPT !.at = "loop", !.listCalls = @ + 1]
       ELSE /\ items' = items
            /\ cfg' = [cfg EXCEPT !.at = "log.Fatalf: Failed to list namespaces",
                                  !.listCalls = @ + 1]
  /\ UNCHANGED <<store, clock, last>>

LoopCmd == cfg.at = "loop" /\ cfg.variant = "cmd/namespace-auditor" /\ processNamespaces

LoopMain == cfg.at = "loop" /\ cfg.variant = "main.go" /\ main

\* the loop is over: main returns
Return ==
  /\ cfg.at = "loop" /\ items = <<>>
  /\ cfg' = [cfg EXCEPT !.at = "returned"]
  /\ UNCHANGED <<store, clock, items, last>>

NextProc == Startup \/ ListCall \/ LoopCmd \/ LoopMain \/ Return \/ Tick \/ ExternalDelete

SpecProc == InitProc /\ [][NextProc]_vars

\* internal/azure: what the identity provider may answer to one lookup, and
\* what GraphClient.UserExists makes of it
StatusOK == 200
StatusNotFound == 404
OtherStatusCodes == {204, 401, 403, 500}

ProviderResponses ==
  {[kind |-> k, code |-> 0] : k \in {"GetToken error", "Do error"}}
    \cup {[kind |-> "response", code |-> c] : c \in {StatusOK, StatusNotFound} \cup OtherStatusCodes}

\* mutant: every answer but 200 OK means that the user does not exist
GraphClient_UserExists_Non200IsAbsent(resp) ==
  IF resp.kind = "response" /\ resp.code = StatusOK THEN "exists" ELSE "absent"

\* GraphClient.UserExists: (true, nil) is "exists", (false, nil) is "absent"
GraphClient_UserExists(resp) ==
  IF resp.kind = "GetToken error" THEN "error"       \* failed to get access token
  ELSE IF resp.kind = "Do error" THEN "error"        \* HTTP request failed
  ELSE IF resp.code = StatusOK THEN "exists"
  ELSE IF resp.code = StatusNotFound THEN "absent"
  ELSE "error"                                       \* unexpected API response

\* one iteration of the loop, the identity checker being the Graph client
processNamespacesGraph ==
  /\ items # <<>>
  /\ \E resp \in ProviderResponses, ok \in BOOLEAN :
       LET ns == Head(items)
           res == GraphClient_UserExists(resp)
           w == ProcessNamespace(cfg, NewWorld(store), ns, res, clock, ok)
       IN /\ store' = w.store
          /\ last' = Observe("ProcessNamespace", ns, res, w) @@ [resp |-> resp]
  /\ items' = Tail(items)
  /\ UNCHANGED <<clock, cfg>>

NextGraph == StartPass \/ processNamespacesGraph \/ Tick \/ ExternalDelete

SpecGraph == Init /\ [][NextGraph]_vars

\* the batch processor next to another writer of the cluster: between the
\* listing of a pass and the Update of an invocation somebody else may have
\* changed the namespace, on a part the auditor does not manage
TeamAnnotation == "team"

InitExt ==
  /\ store \in {[n \in {"ns1"} |-> Namespace("ns1", o, m, TRUE, {})] :
                  o \in Optional({EmailValid, EmailOtherDomain}), m \in Optional(InitMarkers)}
  /\ clock = 0
  /\ InitConfig
  /\ ~cfg.dryRun
  /\ items = <<>>
  /\ last = NoInvocation

\* somebody else updates a namespace
ExternalUpdate ==
  \E name \in DOMAIN store :
    /\ ~Has(store[name].Annotations, TeamAnnotation)
    /\ store' = [store EXCEPT ![name].Annotations = With(@, TeamAnnotation, <<"t">>)]
    /\ UNCHANGED <<clock, cfg, items, last>>

NextExt == StartPass \/ processNamespaces \/ Tick \/ ExternalUpdate \/ ExternalDelete

SpecExt == InitExt /\ [][NextExt]_vars

\* the reconciler under its host, on a watched namespace whose user stays
\* absent: items is the host's set of pending requests [name, at], at being
\* the clock value from which the request is due.  The host starts with one
\* request per watched namespace, adds one for every change of a watched
\* namespace and one after RequeueAfter when Reconcile returns a positive
\* RequeueAfter and no error; it runs one Reconcile per due request
InitHost ==
  /\ store \in {[n \in {"ns1"} |-> Namespace("ns1", {EmailValid}, m, FALSE, {EmailValid})] :
                  m \in Optional(InitMarkers)}
  /\ clock = 0
  /\ InitConfig
  /\ ~cfg.dryRun
  /\ items = {[name |-> "ns1", at |-> 0]}
  /\ last = NoInvocation

\* the clock is followed up to MaxClock, and further while a request is not yet due
ClockMayAdvance == clock < MaxClock \/ \E r \in items : r.at > clock

HostReconcile ==
  \E r \in items, d \in 0..1 :
    /\ r.at <= clock
    /\ d = 0 \/ ClockMayAdvance
    /\ LET w == Reconcile(cfg.gracePeriod, NewWorld(store), r.name, TRUE, "absent",
                          clock, clock + d, TRUE)
           ns == IF r.name \in DOMAIN store THEN store[r.name]
                 ELSE [NoNamespace EXCEPT !.Name = r.name]
           changed == IF w.store # store THEN {[name |-> r.name, at |-> clock + d]} ELSE {}
           requeued == IF ~w.retErr /\ w.requeueAfter > 0
                       THEN {[name |-> r.name, at |-> clock + d + w.requeueAfter]} ELSE {}
       IN /\ store' = w.store
          /\ last' = Observe("Reconcile", ns, "absent", w)
          /\ items' = (items \ {r}) \cup changed \cup requeued
    /\ clock' = clock + d
    /\ UNCHANGED cfg

HostClock ==
  /\ ClockMayAdvance
  /\ clock' = clock + 1
  /\ UNCHANGED <<store, cfg, items, last>>

NextHost == HostReconcile \/ HostClock

SpecHost == InitHost /\ [][NextHost]_vars

\* pass after pass of the batch job on one profile namespace, the identity
\* checker giving the same answer cfg.res every time and the store accepting
\* every call; cfg.mutations counts the store calls issued so far, up to
\* MaxMutations
InitConv ==
  /\ store \in {[n \in {"ns1"} |-> Namespace("ns1", o, m, TRUE, {})] :
                  o \in Optional({EmailValid, EmailOtherDomain}), m \in Optional(InitMarkers)}
  /\ clock = 0
  /\ cfg \in [gracePeriod : 0..MaxGrace, allowedDomains : {AllowedDomains}, dryRun : {FALSE},
              res : UserExistsOutcomes, mutations : {0}]
  /\ items = <<>>
  /\ last = NoInvocation

\* one iteration of the loop
processNamespacesFixed ==
  /\ items # <<>>
  /\ LET ns == Head(items)
         w == ProcessNamespace(cfg, NewWorld(store), ns, cfg.res, clock, TRUE)
         n == cfg.mutations + Len(w.calls)
     IN /\ store' = w.store
        /\ last' = Observe("ProcessNamespace", ns, cfg.res, w)
        /\ cfg' = [cfg EXCEPT !.mutations = IF n > MaxMutations THEN MaxMutations ELSE n]
  /\ items' = Tail(items)
  /\ UNCHANGED clock

NextConv == StartPass \/ processNamespacesFixed \/ ClockRuns

SpecConv == InitConv /\ [][NextConv]_vars

\* the batch job started with ALLOWED_DOMAINS unset or empty: os.Getenv
\* gives the empty string, and loadConfig splits it at the commas
loadConfig_allowedDomains(env) == Split(env, ",")

EmailEmptyDomain == <<"u", "@">>

InitUnset ==
  /\ store \in {[n \in {"ns1"} |-> Namespace("ns1", o, m, TRUE, {})] :
                  o \in Optional({EmailValid, EmailNoAt, EmailEmptyDomain}),
                  m \in Optional(InitMarkers)}
  /\ clock = 0
  /\ cfg \in [gracePeriod : 0..MaxGrace, allowedDomains : {loadConfig_allowedDomains(<<>>)},
              dryRun : BOOLEAN]
  /\ items = <<>>
  /\ last = NoInvocation

SpecUnset == InitUnset /\ [][Next]_vars

\* the batch processor and the reconciler at work on the same cluster,
\* dry-run off: a profile namespace that carries the user-email label of the
\* reconciler and may carry the owner annotation of the batch processor
InitBoth ==
  /\ store \in {[n \in {"ns1"} |-> Namespace("ns1", o, m, TRUE, {EmailValid})] :
                  o \in Optional({EmailValid}), m \in Optional(InitMarkers)}
  /\ clock = 0
  /\ InitConfig
  /\ ~cfg.dryRun
  /\ items = <<>>
  /\ last = NoInvocation

NextBoth == StartPass \/ processNamespaces \/ ReconcileRequest \/ Tick \/ ExternalDelete

SpecBoth == InitBoth /\ [][NextBoth]_vars

----------------------------------------------------------------------------
(* Reading an observation *)

CountCalls(o, verb) == Cardinality({i \in 1..Len(o.calls) : o.calls[i].verb = verb})
Logged(o, msg) == \E i \in 1..Len(o.logs) : o.logs[i] = msg

\* the owner e-mails of the model whose domain is in AllowedDomains
ValidOwners == {EmailValid, EmailUpper}

OwnerIsValid(ns) ==
  Has(ns.Annotations, OwnerAnnotation) /\ ns.Annotations[OwnerAnnotation] \in ValidOwners

MarkerPresent(ns) == Has(ns.Annotations, GracePeriodAnnotation)
MarkerValid(ns) == MarkerPresent(ns) /\ ns.Annotations[GracePeriodAnnotation].text = "rfc3339"
MarkerCorrupt(ns) == MarkerPresent(ns) /\ ns.Annotations[GracePeriodAnnotation].text # "rfc3339"
MarkerTime(ns) == ns.Annotations[GracePeriodAnnotation].t

Processed == last.op = "ProcessNamespace"

----------------------------------------------------------------------------
(* Claims *)

\* C1: a store Delete is issued by ProcessNamespace only in an invocation
\* where the owner annotation is present, non-empty and of an allowed
\* domain, the identity checker answered (exists=false, no error) in that
\* invocation, the delete-at annotation is present and parses as RFC-3339,
\* the grace period counted from the parsed marker has expired, and dry-run
\* is off; in every other case no Delete is issued.
C1_DeleteOnlyExpiredOrphan ==
  (Processed /\ CountCalls(last, "Delete") > 0) =>
     /\ OwnerIsValid(last.ns)
     /\ last.idCalls = 1 /\ last.res = "absent"
     /\ MarkerValid(last.ns)
     /\ last.now >= MarkerTime(last.ns) + cfg.gracePeriod
     /\ ~cfg.dryRun

\* a namespace was deleted by an invocation
C1_Witness ==
  /\ Processed /\ CountCalls(last, "Delete") = 1
  /\ last.stored # {} /\ last.after = {}

C3_DryRunReadOnly ==
  (Processed /\ cfg.dryRun) =>
     /\ CountCalls(last, "Update") = 0
     /\ CountCalls(last, "Delete") = 0
     /\ last.after = last.stored

\* a dry-run invocation reached the branch that would have deleted
C3_Witness ==
  /\ Processed /\ cfg.dryRun
  /\ Logged(last, "[DRY RUN] Would delete namespace")
  /\ last.stored = {last.ns}

\* the decision branch an invocation of main.go's processNamespace took, as
\* its log shows it
main_Branch(logs) ==
  IF \E i \in 1..Len(logs) : logs[i] \in {"Valid user found, removing deletion marker", "Invalid timestamp"}
  THEN "remove marker"
  ELSE IF \E i \in 1..Len(logs) : logs[i] = "Marking for deletion" THEN "set marker"
  ELSE IF \E i \in 1..Len(logs) : logs[i] = "Deleting after grace period" THEN "delete"
  ELSE "no-op"

StoreOf(stored) == [n \in {x.Name : x \in stored} |-> TheOne(stored)]

\* C4: dry-run never changes the decision branch: the branch taken with
\* dry-run on is the branch taken with dry-run off on the same namespace,
\* identity result and clock; the identity checker is consulted in dry-run
\* too.  (Stated for main.go, whose Graph client is nil in dry-run.)
C4_DryRunSameBranch ==
  (last.op = "processNamespace" /\ cfg.dryRun) =>
     LET wet == main_processNamespace(last.ns, FALSE, NewWorld(StoreOf(last.stored)),
                                      cfg.gracePeriod, cfg.allowedDomains, FALSE,
                                      last.res, last.now, TRUE)
     IN /\ main_Branch(last.logs) = main_Branch(wet.logs)
        /\ last.idCalls = wet.idCalls

\* C5: grace-period boundary: an orphan with marker t and grace period g
\* processed at clock t+g-1 is still pending (no delete), and processed at
\* clock exactly t+g is expired (delete issued unless dry-run).
C5_GraceBoundary ==
  (Processed /\ OwnerIsValid(last.ns) /\ last.idCalls = 1 /\ last.res = "absent"
     /\ MarkerValid(last.ns)) =>
     LET deadline == MarkerTime(last.ns) + cfg.gracePeriod
     IN /\ last.now = deadline - 1 =>
             /\ ~Logged(last, "Deleting namespace after grace period")
             /\ CountCalls(last, "Delete") = 0
        /\ last.now = deadline =>
             /\ Logged(last, "Deleting namespace after grace period")
             /\ ~cfg.dryRun => CountCalls(last, "Delete") = 1

\* C8: when the delete-at annotation is present but does not parse as
\* RFC-3339 (a present but empty value included), the only store action an
\* invocation of either variant takes is one Update that removes the
\* annotation: no Delete, no fresh timestamp.
C8_CorruptOnlyRemoved ==
  (last.op \in {"ProcessNamespace", "Reconcile"} /\ MarkerCorrupt(last.ns) /\ last.calls # <<>>) =>
     /\ Len(last.calls) = 1
     /\ last.calls[1].verb = "Update"
     /\ ~MarkerPresent(last.calls[1].obj)

\* the namespace an invocation left in the store, when it left one
After == TheOne(last.after)

\* the invocation just ended: nothing has touched the namespace since
JustProcessed ==
  /\ Processed
  /\ clock = last.now
  /\ last.after # {}
  /\ Stored(store, last.ns.Name) = last.after

\* the store after a second invocation on the stored namespace, with the
\* same identity result and clock, the store accepting its call
SecondCall == ProcessNamespace(cfg, NewWorld(store), After, last.res, clock, TRUE).store

\* C6 as claimed: for every initial namespace state, a corrupt marker
\* included, a second ProcessNamespace right after the first (same identity
\* result, same clock, dry-run off) leaves the annotations as the first
\* left them.
C6_Idempotent ==
  (JustProcessed /\ ~cfg.dryRun /\ ~last.err /\ last.stored = {last.ns}) =>
     SecondCall = store

\* C6 as amended: the same, except for an orphan whose marker is corrupt
\* (the first call removes the marker, the second sets a fresh one), and
\* given a grace period of at least one second, the resolution of the
\* marker the engine writes.
C6_IdempotentAmended ==
  (/\ JustProcessed /\ ~cfg.dryRun /\ ~last.err /\ last.stored = {last.ns}
   /\ ~(last.idCalls = 1 /\ last.res = "absent" /\ MarkerCorrupt(last.ns))
   /\ cfg.gracePeriod >= TicksPerSec) =>
     SecondCall = store

\* a first call has just set the marker of an orphan, at a clock value that
\* is not a whole second
C6_Witness ==
  /\ JustProcessed /\ ~cfg.dryRun /\ ~last.err /\ last.stored = {last.ns}
  /\ cfg.gracePeriod >= TicksPerSec
  /\ last.idCalls = 1 /\ last.res = "absent"
  /\ ~MarkerPresent(last.ns) /\ MarkerPresent(After)
  /\ clock % TicksPerSec # 0

\* C7 as claimed: for a namespace whose delete-at is not a valid RFC-3339
\* timestamp, for any owner state and any identity-checker outcome, one
\* non-dry-run ProcessNamespace removes the annotation from the stored
\* namespace and issues no Delete.
C7_CorruptRemovedAlways ==
  (Processed /\ ~cfg.dryRun /\ MarkerCorrupt(last.ns)) =>
     /\ CountCalls(last, "Delete") = 0
     /\ CountCalls(last, "Update") = 1
     /\ \A i \in 1..Len(last.calls) : ~MarkerPresent(last.calls[i].obj)
     /\ (~last.err => ~MarkerPresent(After))

\* C7 as amended: the corrupt annotation is removed (one Update without
\* the annotation, no Delete) when the owner is valid and the identity
\* checker answered without error; with a missing, empty or invalid owner,
\* or an identity-checker error, no store call is made and the corrupt
\* annotation stays.
C7_CorruptRemovedWhenChecked ==
  (Processed /\ ~cfg.dryRun /\ MarkerCorrupt(last.ns)) =>
     /\ CountCalls(last, "Delete") = 0
     /\ (OwnerIsValid(last.ns) /\ last.res # "error") =>
          /\ last.idCalls = 1
          /\ Len(last.calls) = 1 /\ last.calls[1].verb = "Update"
          /\ last.calls[1].obj = [last.ns EXCEPT !.Annotations = Without(@, GracePeriodAnnotation)]
          /\ (~last.err => last.after = {last.calls[1].obj})
     /\ (~OwnerIsValid(last.ns) \/ last.res = "error") =>
          /\ last.calls = <<>>
          /\ last.after = last.stored

\* the corrupt marker of an orphan was removed from the stored namespace
C7_Witness ==
  /\ Processed /\ ~cfg.dryRun /\ OwnerIsValid(last.ns)
  /\ MarkerPresent(last.ns) /\ last.ns.Annotations[GracePeriodAnnotation] = InvalidTime
  /\ last.res = "absent" /\ last.idCalls = 1
  /\ last.stored = {last.ns} /\ last.after # {} /\ ~MarkerPresent(After)

\* C9: owner valid, the identity checker reports the user exists, delete-at
\* present whatever its value: a non-dry-run ProcessNamespace issues exactly
\* one Update, after which delete-at is absent, and no Delete.
C9_ActiveMarkedCleaned ==
  (/\ Processed /\ ~cfg.dryRun /\ OwnerIsValid(last.ns)
   /\ last.idCalls = 1 /\ last.res = "exists" /\ MarkerPresent(last.ns)) =>
     /\ Len(last.calls) = 1
     /\ last.calls[1].verb = "Update"
     /\ ~MarkerPresent(last.calls[1].obj)
     /\ (~last.err => last.after # {} /\ ~MarkerPresent(After))

\* an unparsable marker of an active user was removed from the stored namespace
C9_Witness ==
  /\ Processed /\ ~cfg.dryRun /\ OwnerIsValid(last.ns)
  /\ last.idCalls = 1 /\ last.res = "exists"
  /\ MarkerCorrupt(last.ns)
  /\ last.stored = {last.ns} /\ ~last.err /\ ~MarkerPresent(After)

\* C10: owner valid, the identity checker reports the user does not exist,
\* no delete-at: a non-dry-run ProcessNamespace issues exactly one Update
\* that sets delete-at to the current clock value in RFC-3339 (whole
\* seconds), issues no Delete, and the namespace is still in the store.
C10_OrphanMarked ==
  (/\ Processed /\ ~cfg.dryRun /\ OwnerIsValid(last.ns)
   /\ last.idCalls = 1 /\ last.res = "absent" /\ ~MarkerPresent(last.ns)) =>
     /\ Len(last.calls) = 1
     /\ last.calls[1].verb = "Update"
     /\ MarkerValid(last.calls[1].obj)
     /\ MarkerTime(last.calls[1].obj) % TicksPerSec = 0
     /\ MarkerTime(last.calls[1].obj) <= last.now
     /\ last.now - MarkerTime(last.calls[1].obj) < TicksPerSec
     /\ (last.stored # {} => last.after # {})
     /\ (~last.err => last.after = {last.calls[1].obj})

\* an orphan was marked at a clock value that is not a whole second
C10_Witness ==
  /\ Processed /\ ~cfg.dryRun /\ OwnerIsValid(last.ns)
  /\ last.idCalls = 1 /\ last.res = "absent" /\ ~MarkerPresent(last.ns)
  /\ last.now % TicksPerSec # 0
  /\ ~last.err /\ last.stored = {last.ns} /\ MarkerValid(After)

\* C11: owner valid, the identity checker reports the user does not exist,
\* delete-at present, valid and not yet expired: ProcessNamespace makes no
\* store call at all and the marker value in the store is left as it was
\* (re-evaluation does not reset the grace timer).
C11_PendingUntouched ==
  (/\ Processed /\ OwnerIsValid(last.ns)
   /\ last.idCalls = 1 /\ last.res = "absent"
   /\ MarkerValid(last.ns)
   /\ last.now < MarkerTime(last.ns) + cfg.gracePeriod) =>
     /\ last.calls = <<>>
     /\ last.after = last.stored
     /\ (last.stored = {last.ns} =>
           After.Annotations[GracePeriodAnnotation] = last.ns.Annotations[GracePeriodAnnotation])

\* a pending orphan was evaluated again, later than its marker, dry-run off
C11_Witness ==
  /\ Processed /\ ~cfg.dryRun /\ OwnerIsValid(last.ns)
  /\ last.idCalls = 1 /\ last.res = "absent"
  /\ MarkerValid(last.ns)
  /\ last.now > MarkerTime(last.ns)
  /\ last.now < MarkerTime(last.ns) + cfg.gracePeriod
  /\ last.stored = {last.ns}

\* C12: owner valid, the identity checker reports the user exists, no
\* delete-at annotation: ProcessNamespace makes no store Update or Delete
\* call and the stored namespace is unchanged.
C12_ActiveCleanUntouched ==
  (/\ Processed /\ OwnerIsValid(last.ns)
   /\ last.idCalls = 1 /\ last.res = "exists"
   /\ ~MarkerPresent(last.ns)) =>
     /\ CountCalls(last, "Update") = 0
     /\ CountCalls(last, "Delete") = 0
     /\ last.after = last.stored

\* an active user's unmarked namespace was processed, dry-run off
C12_Witness ==
  /\ Processed /\ ~cfg.dryRun /\ OwnerIsValid(last.ns)
  /\ last.idCalls = 1 /\ last.res = "exists"
  /\ ~MarkerPresent(last.ns)
  /\ last.stored = {last.ns} /\ last.logs = <<>>

\* C13: when the identity checker returns an error, ProcessNamespace makes
\* no store Update or Delete call and leaves the stored namespace unchanged,
\* whatever the marker (absent, pending, expired, corrupt); the identity
\* checker was called exactly once in that invocation.
C13_IdentityErrorNoChange ==
  (Processed /\ OwnerIsValid(last.ns) /\ last.res = "error") =>
     /\ last.idCalls = 1
     /\ CountCalls(last, "Update") = 0
     /\ CountCalls(last, "Delete") = 0
     /\ last.after = last.stored

\* the identity checker failed on a namespace whose marker had expired
C13_Witness ==
  /\ Processed /\ ~cfg.dryRun /\ OwnerIsValid(last.ns) /\ last.res = "error"
  /\ MarkerValid(last.ns) /\ last.now > MarkerTime(last.ns) + cfg.gracePeriod
  /\ last.stored = {last.ns}
  /\ Logged(last, "Error checking user")

\* the store calls of an invocation that set a marker the namespace did not carry
FreshMarks(o) ==
  {i \in 1..Len(o.calls) :
     /\ o.calls[i].verb = "Update"
     /\ MarkerValid(o.calls[i].obj)
     /\ ~MarkerValid(o.ns)}

\* C14: one ProcessNamespace or Reconcile invocation issues at most one
\* mutating store call (Update or Delete); a namespace is never freshly
\* marked and deleted within the same invocation, a zero grace period
\* included.
C14_AtMostOneMutation ==
  (last.op \in {"ProcessNamespace", "Reconcile"}) =>
     /\ CountCalls(last, "Update") + CountCalls(last, "Delete") <= 1
     /\ (FreshMarks(last) # {} => CountCalls(last, "Delete") = 0)

\* the reconciler freshly marked a namespace under a zero grace period
C14_Witness ==
  /\ last.op = "Reconcile" /\ cfg.gracePeriod = 0
  /\ FreshMarks(last) # {} /\ ~last.err
  /\ last.after # {} /\ MarkerValid(After)

\* the number of '@' in an e-mail, and what follows its first '@'
AtCount(e) == Cardinality({i \in 1..Len(e) : e[i] = "@"})
AfterAt(e) ==
  LET k == CHOOSE i \in 1..Len(e) : e[i] = "@" /\ \A j \in 1..(i-1) : e[j] # "@"
  IN [i \in 1..(Len(e) - k) |-> e[k + i]]
Listed(d, D) == \E i \in 1..Len(D) : ToLower(d) = ToLower(D[i])
IsSubdomainOf(d, a) ==
  /\ a # <<>> /\ Len(d) > Len(a) + 1
  /\ d[Len(d) - Len(a)] = "."
  /\ \A i \in 1..Len(a) : LowerChar(d[Len(d) - Len(a) + i]) = LowerChar(a[i])

\* C15: for all e-mails e and domain lists D, isValidDomain(e, D) is true if
\* and only if e contains exactly one '@' and the part after it equals,
\* case-insensitively, some entry of D; the result is always a boolean (no
\* error); a subdomain of an allowed domain is valid only if it is listed
\* itself.
C15_ValidDomainIff ==
  (last.op = "isValidDomain") =>
     /\ last.valid \in BOOLEAN
     /\ last.valid <=>
          (AtCount(last.email) = 1 /\ Listed(AfterAt(last.email), last.allowedDomains))
     /\ (/\ AtCount(last.email) = 1
         /\ \E i \in 1..Len(last.allowedDomains) :
              IsSubdomainOf(AfterAt(last.email), last.allowedDomains[i])
         /\ ~Listed(AfterAt(last.email), last.allowedDomains)) => ~last.valid

\* an e-mail of a subdomain of the one allowed domain was rejected
C15_Witness ==
  /\ last.op = "isValidDomain"
  /\ last.email = <<"@", "u", ".", "a">>
  /\ last.allowedDomains = << <<"A">> >>
  /\ ~last.valid

\* the names of a sequence of namespaces, in order
Names(nss) == [i \in 1..Len(nss) |-> nss[i].Name]
StillListed(n) == \E i \in 1..Len(items) : items[i].Name = n

\* a step of the loop of processNamespaces: it takes the head of the list
LoopStep == items # <<>> /\ items' # items

\* C16: in a batch pass a failing store Update or Delete for one namespace
\* does not stop the pass: the failure leaves the stored state of that
\* namespace as it was before the call, the namespaces listed after it stay
\* to be processed, and each of them is processed.
C16_StoreErrorDoesNotStopPass ==
  /\ [](Processed /\ last.err =>
          /\ Len(last.calls) = 1
          /\ last.after = last.stored)
  /\ [][LoopStep /\ last'.err => items' = Tail(items)]_vars
  /\ \A n \in {"ns1", "ns2"} :
       (Processed /\ last.err /\ last.ns.Name # n /\ StillListed(n))
          ~> (Processed /\ last.ns.Name = n /\ ~StillListed(n))

\* an Update of the first of two listed namespaces was refused, the second
\* is still to be processed
C16_Witness ==
  /\ Processed /\ last.err /\ last.ns.Name = "ns1"
  /\ last.calls # <<>> /\ last.calls[1].verb = "Update"
  /\ last.stored = {last.ns}
  /\ Names(items) = <<"ns2">>

\* the namespaces of a store that match the selector of the batch pass
Profiles(st) == {st[n] : n \in {m \in DOMAIN st : MatchesSelector(st[m], KubeflowLabel)}}

\* C17: a batch pass lists the namespaces that match the selector
\* app.kubernetes.io/part-of=kubeflow-profile once (each of them, once each),
\* then invokes ProcessNamespace once per listed namespace, one after the
\* other in the order of the list, without listing again; a namespace
\* without that label is never processed and never changed by the pass.
C17_ListOnceProcessEachOnce ==
  /\ [](Processed => /\ Has(last.ns.Labels, "app.kubernetes.io/part-of")
                      /\ last.ns.Labels["app.kubernetes.io/part-of"] = "kubeflow-profile")
  /\ [][(items = <<>> /\ items' # <<>>) =>
          /\ {items'[i] : i \in 1..Len(items')} = Profiles(store)
          /\ Len(items') = Cardinality(Profiles(store))]_vars
  /\ [][LoopStep =>
          /\ items' = Tail(items)
          /\ last'.op = "ProcessNamespace" /\ last'.ns = Head(items)
          /\ \A n \in DOMAIN store :
               ~MatchesSelector(store[n], KubeflowLabel) =>
                  n \in DOMAIN store' /\ store'[n] = store[n]]_vars

\* a pass ended after it changed the profile namespace ns2 and left alone
\* ns1, which has no profile label but an orphan's owner and no marker
C17_Witness ==
  /\ Processed /\ items = <<>> /\ last.ns.Name = "ns2"
  /\ last.calls # <<>> /\ ~last.err
  /\ "ns1" \in DOMAIN store
  /\ ~MatchesSelector(store["ns1"], KubeflowLabel)
  /\ OwnerIsValid(store["ns1"]) /\ ~MarkerPresent(store["ns1"])

Reverse(seq) == [i \in 1..Len(seq) |-> seq[Len(seq) + 1 - i]]
PassNames == {"ns1", "ns2"}

\* C18: namespaces are independent within a pass: processing one namespace
\* never changes the stored state of another, and the store after a pass is
\* the same for both processing orders of the listed namespaces, given the
\* same identity results, store answers and clock.
C18_NamespacesIndependent ==
  /\ [][LoopStep =>
          \A n \in DOMAIN store :
             n # Head(items).Name => n \in DOMAIN store' /\ store'[n] = store[n]]_vars
  /\ [](Len(items) = 2 =>
          \A resOf \in [PassNames -> UserExistsOutcomes], okOf \in [PassNames -> BOOLEAN] :
             RunPass(cfg, store, items, resOf, okOf, clock)
               = RunPass(cfg, store, Reverse(items), resOf, okOf, clock))

\* two namespaces are listed and a pass changes both of them: one is marked,
\* the other deleted
C18_Witness ==
  /\ Len(items) = 2 /\ DOMAIN store = PassNames
  /\ items[1] = store["ns1"] /\ items[2] = store["ns2"]
  /\ LET after == RunPass(cfg, store, items, [n \in PassNames |-> "absent"],
                          [n \in PassNames |-> TRUE], clock)
     IN /\ DOMAIN after = {"ns1"}
        /\ after["ns1"] # store["ns1"]

\* the namespace a Reconcile invocation fetched is one the reconciler acts on
Reconciled(o) ==
  /\ o.op = "Reconcile" /\ ~o.getErr /\ o.stored # {}
  /\ ~o.ns.DeletionTimestamp
  /\ Has(o.ns.Labels, userEmailLabel) /\ o.ns.Labels[userEmailLabel] # <<>>

\* the outcome "marker present, valid, not yet expired"
ReconcilePending(o) ==
  /\ Reconciled(o) /\ o.res = "absent"
  /\ MarkerValid(o.ns)
  /\ o.now < MarkerTime(o.ns) + cfg.gracePeriod

\* C19: Reconcile requests re-invocation (a positive RequeueAfter) if and
\* only if the outcome is "marker present, valid, not yet expired", and the
\* delay is then the remaining grace period, marker + grace - now, now
\* being a clock value read during the invocation; every other outcome
\* (skip, marker removed, marker freshly set, corrupt marker removed,
\* deleted) returns no rescheduling request.
C19_RequeueIffPending ==
  (last.op = "Reconcile") =>
     /\ (last.requeueAfter > 0) <=> ReconcilePending(last)
     /\ ReconcilePending(last) =>
          \E d \in 0..1 :
             last.requeueAfter = MarkerTime(last.ns) + cfg.gracePeriod - (last.now + d)

\* C20: when the namespace is gone at the fetch (Get answers not-found),
\* Reconcile returns success with no requeue, calls neither the identity
\* checker nor any store mutation, and reports no error.
C20_GoneIsNoOp ==
  (last.op = "Reconcile" /\ ~last.getErr /\ last.stored = {}) =>
     /\ ~last.retErr
     /\ last.requeueAfter = 0
     /\ last.idCalls = 0
     /\ last.calls = <<>>
     /\ last.after = {}

\* a request for ns1, which was deleted after the start, was reconciled
C20_Witness ==
  /\ last.op = "Reconcile" /\ ~last.getErr /\ last.ns.Name = "ns1"
  /\ last.stored = {} /\ "ns1" \notin DOMAIN store
  /\ last.res = "absent"

\* C21: cancellation is respected: once the caller's context is cancelled
\* during the processing of a namespace, no store Update or Delete is issued
\* for that namespace afterwards.
C21_NoMutationAfterCancel ==
  (last.op = "ProcessNamespace(ctx)" /\ last.cancelAt # "never") =>
     /\ CountCalls(last, "Update") = 0
     /\ CountCalls(last, "Delete") = 0

\* the store action an invocation chose, read off its store calls
StoreAction(calls) ==
  IF calls = <<>> THEN "none"
  ELSE IF calls[1].verb = "Delete" THEN "delete"
  ELSE IF Has(calls[1].obj.Annotations, GracePeriodAnnotation) THEN "set marker"
  ELSE "remove marker"

\* what the batch processor does with the namespace a Reconcile fetched, on
\* the same identity outcome and the same clock value
BatchOn(o) ==
  ProcessNamespace(cfg, NewWorld(StoreOf(o.stored)), o.ns, o.res, o.now, TRUE)

\* C22: the batch processor and the continuous reconciler implement the
\* same decision function: for every namespace state, identity result and
\* clock value both choose the same store action (none, remove marker, set
\* marker, delete) when dry-run is off.
C22_SameDecision ==
  (Reconciled(last) /\ OwnerIsValid(last.ns) /\ ~cfg.dryRun) =>
     StoreAction(last.calls) = StoreAction(BatchOn(last).calls)

\* the log lines that carry the dry-run marker, one per mutating action
DryRunMessages ==
  {"[DRY RUN] Would remove annotation", "[DRY RUN] Would remove invalid annotation",
   "[DRY RUN] Would add deletion annotation", "[DRY RUN] Would delete namespace"}

DryRunLogs(o) == SelectSeq(o.logs, LAMBDA m : m \in DryRunMessages)

\* the dry-run line of the mutating branch an invocation reaches, "" when the
\* branch is a no-op
WouldMutate(o) ==
  IF ~OwnerIsValid(o.ns) \/ o.res = "error" THEN ""
  ELSE IF o.res = "exists"
  THEN IF MarkerPresent(o.ns) THEN "[DRY RUN] Would remove annotation" ELSE ""
  ELSE IF ~MarkerPresent(o.ns) THEN "[DRY RUN] Would add deletion annotation"
  ELSE IF MarkerCorrupt(o.ns) THEN "[DRY RUN] Would remove invalid annotation"
  ELSE IF o.now > MarkerTime(o.ns) + cfg.gracePeriod THEN "[DRY RUN] Would delete namespace"
  ELSE ""

\* C23: in dry-run mode every invocation that reaches a branch which would
\* have mutated state (remove stale marker, remove corrupt marker, set
\* marker, delete) logs exactly one "[DRY RUN]" line, the one of that action,
\* and no "[DRY RUN]" line is logged when dry-run is off or the branch is a
\* no-op.
C23_DryRunLogged ==
  Processed =>
     DryRunLogs(last) = IF cfg.dryRun /\ WouldMutate(last) # ""
                        THEN <<WouldMutate(last)>> ELSE <<>>

C23_Witness ==
  /\ Processed /\ cfg.dryRun
  /\ MarkerCorrupt(last.ns)
  /\ DryRunLogs(last) = <<"[DRY RUN] Would remove invalid annotation">>
  /\ last.calls = <<>>

\* C24: eventual reclamation (batch): while a labelled namespace keeps an
\* owner of an allowed domain, the identity checker keeps answering "does
\* not exist" without error, store calls succeed, dry-run is off, the clock
\* advances and passes keep being triggered, the namespace is eventually
\* deleted, whatever its initial marker (absent, pending, expired, corrupt).
C24_EventuallyReclaimed ==
  ("ns1" \in DOMAIN store /\ OwnerIsValid(store["ns1"]) /\ ~cfg.dryRun)
     ~> ("ns1" \notin DOMAIN store)

C24_Witness ==
  /\ Processed /\ last.res = "absent" /\ ~last.err
  /\ CountCalls(last, "Delete") = 1
  /\ last.now > MaxClock
  /\ "ns1" \notin DOMAIN store

\* the invocation just ended has set a valid marker on a namespace that had none
JustMarked ==
  /\ JustProcessed /\ ~last.err
  /\ ~MarkerPresent(last.ns)
  /\ CountCalls(last, "Update") = 1
  /\ MarkerValid(After)

\* C25: the delete-at marker records the first orphan observation: once the
\* engine has set a valid marker, no later invocation in which the identity
\* is still absent (or the identity check fails) changes its value, so the
\* namespace is deleted no earlier than the grace period after the clock
\* value of the pass that set the marker.
C25_MarkerIsFirstObservation ==
  /\ (Processed /\ MarkerValid(last.ns) /\ last.res \in {"absent", "error"}) =>
        CountCalls(last, "Update") = 0
  /\ JustMarked =>
        \A now2 \in last.now..(MaxClock + MaxGrace + TicksPerSec), res2 \in {"absent", "error"} :
           CountCalls(ProcessNamespace(cfg, NewWorld(store), After, res2, now2, TRUE), "Delete") > 0
              => now2 >= last.now + cfg.gracePeriod

\* C26: per-namespace problems never terminate the process: whatever the
\* namespace state, the identity-checker outcome and the store outcome (a
\* failed namespace listing or other store read/write failure included),
\* the pass does not panic or exit; only configuration-time failures
\* terminate the process.
C26_OnlyConfigFailuresExit ==
  cfg.at \in ExitPoints => (cfg.at \in ConfigFailures /\ cfg.listCalls = 0)

\* the environment lacks a valid GRACE_PERIOD or one of the credentials
ConfigInvalid ==
  ~(cfg.GRACE_PERIOD /\ cfg.AZURE_TENANT_ID /\ cfg.AZURE_CLIENT_ID /\ cfg.AZURE_CLIENT_SECRET)

\* C27: configuration errors are fatal before any namespace is touched: if
\* GRACE_PERIOD does not parse as a duration, or a required credential
\* (tenant id, client id, client secret) is missing, the process terminates
\* at startup without listing, updating or deleting any namespace.
C27_ConfigErrorsFatalAtStartup ==
  ConfigInvalid =>
     /\ cfg.at \in {"main"} \cup ConfigFailures
     /\ cfg.listCalls = 0
     /\ last = NoInvocation

\* the provider answered the lookup of the invocation with status code c
Answered(c) == last.resp.kind = "response" /\ last.resp.code = c

\* C28: an identity-provider failure is never taken for "user does not
\* exist": UserExists returns (true, nil) only for HTTP 200, (false, nil)
\* only for HTTP 404, and an error for a token-acquisition failure, a
\* transport failure or any other status code; so no namespace is marked
\* or deleted in an invocation where the provider answered with anything
\* other than 404.
C28_ProviderFailureIsNotAbsence ==
  Processed =>
     /\ last.res = "exists" <=> Answered(StatusOK)
     /\ last.res = "absent" <=> Answered(StatusNotFound)
     /\ last.res = "error" <=> ~Answered(StatusOK) /\ ~Answered(StatusNotFound)
     /\ ~Answered(StatusNotFound) =>
           /\ CountCalls(last, "Delete") = 0
           /\ \A i \in 1..Len(last.calls) : ~MarkerPresent(last.calls[i].obj)
           /\ last.after # {} /\ last.stored # {} /\ MarkerPresent(After)
                 => MarkerPresent(TheOne(last.stored))

C28_Witness ==
  /\ Processed /\ ~cfg.dryRun
  /\ OwnerIsValid(last.ns) /\ ~MarkerPresent(last.ns)
  /\ last.idCalls = 1
  /\ last.resp.kind = "response" /\ last.resp.code \in OtherStatusCodes
  /\ last.res = "error"
  /\ last.calls = <<>>

\* the Update of the invocation was refused, and the namespace had been
\* changed in the store since the engine read it
Conflict ==
  /\ Processed /\ last.err
  /\ CountCalls(last, "Update") >= 1
  /\ last.stored # {} /\ TheOne(last.stored) # last.ns

\* the namespace cur after the transition of kind action at clock now
Transition(action, cur, now) ==
  IF action = "set marker"
  THEN [cur EXCEPT !.Annotations = With(@, GracePeriodAnnotation, FormatRFC3339(now))]
  ELSE [cur EXCEPT !.Annotations = Without(@, GracePeriodAnnotation)]

\* C29: when a store Update fails with a conflict because the namespace was
\* modified externally between the engine's read and its write, the engine
\* issues no further Get, Update or Delete for that namespace in the same
\* invocation (single attempt, no read-modify-write retry), and a later pass
\* with unchanged identity state applies the intended transition to the
\* then-current object.
C29_ConflictSingleAttempt ==
  /\ (Processed /\ last.stored # {} /\ TheOne(last.stored) # last.ns) => Len(last.calls) <= 1
  /\ Conflict =>
     /\ Len(last.calls) = 1
     /\ last.after = last.stored
     /\ last.ns.Name \in DOMAIN store =>
           \A now2 \in clock..MaxClock :
              LET cur == store[last.ns.Name]
                  w2 == ProcessNamespace(cfg, NewWorld(store), cur, last.res, now2, TRUE)
              IN /\ StoreAction(w2.calls) = StoreAction(last.calls)
                 /\ Len(w2.calls) = 1 /\ ~w2.err
                 /\ w2.store[cur.Name] = Transition(StoreAction(last.calls), cur, now2)

C29_Witness ==
  /\ Conflict
  /\ StoreAction(last.calls) = "set marker"
  /\ ~Has(last.ns.Annotations, TeamAnnotation)
  /\ last.ns.Name \in DOMAIN store /\ Has(store[last.ns.Name].Annotations, TeamAnnotation)
  /\ clock > last.now

\* C30: every Update the engine submits is the fetched namespace object with
\* only the namespace-auditor/delete-at key added or removed: the name, the
\* labels, the owner annotation and every other annotation are resubmitted
\* exactly as fetched, in every branch.
C30_UpdateResubmitsFetched ==
  Processed =>
     \A i \in 1..Len(last.calls) :
        last.calls[i].verb = "Update" =>
           LET obj == last.calls[i].obj
           IN /\ obj.Name = last.ns.Name
              /\ obj.Labels = last.ns.Labels
              /\ obj.DeletionTimestamp = last.ns.DeletionTimestamp
              /\ Without(obj.Annotations, GracePeriodAnnotation)
                    = Without(last.ns.Annotations, GracePeriodAnnotation)
              /\ MarkerPresent(obj) # MarkerPresent(last.ns)

C30_Witness ==
  /\ Processed /\ ~last.err
  /\ CountCalls(last, "Update") = 1
  /\ Has(last.ns.Annotations, TeamAnnotation) /\ Has(last.ns.Annotations, OwnerAnnotation)
  /\ last.after # {} /\ After = last.calls[1].obj
  /\ Has(After.Annotations, TeamAnnotation)

\* the log lines that report a refused Update
UpdateErrors == {"Error updating", "Error cleaning", "Error marking"}

\* C31: an Update issued for a namespace that does not exist in the store
\* (deleted between list and processing, or never created) fails, is
\* reported as an error observation, and never creates the namespace: the
\* store contains no namespace of that name afterwards.
C31_UpdateOfMissingFails ==
  (Processed /\ last.stored = {} /\ CountCalls(last, "Update") > 0) =>
     /\ last.err
     /\ \E m \in UpdateErrors : Logged(last, m)
     /\ Len(last.calls) = 1
     /\ last.after = {}

C31_Witness ==
  /\ Processed /\ last.stored = {}
  /\ CountCalls(last, "Update") = 1
  /\ MarkerCorrupt(last.ns)
  /\ Logged(last, "Error cleaning")
  /\ last.ns.Name \notin DOMAIN store

\* the delete-at values the invocation submitted to the store
WrittenMarkers(o) ==
  {o.calls[i].obj.Annotations[GracePeriodAnnotation] :
     i \in {j \in 1..Len(o.calls) : o.calls[j].verb = "Update" /\ MarkerPresent(o.calls[j].obj)}}

\* C32: round trip of the marker: every delete-at value the engine itself
\* writes parses as RFC-3339 on a later invocation, to a time not later than
\* the clock value at which it was written (and less than a second before
\* it), so the engine never puts a namespace into the corrupt-marker state
\* and a freshly written marker is never in the future.
C32_MarkerRoundTrip ==
  (last.op \in {"ProcessNamespace", "Reconcile"}) =>
     /\ \A m \in WrittenMarkers(last) :
           /\ ~ParseRFC3339(m).err
           /\ ParseRFC3339(m).t <= last.now
           /\ last.now - ParseRFC3339(m).t < TicksPerSec
     /\ (last.after # {} /\ MarkerCorrupt(After)) =>
           (last.stored # {} /\ MarkerCorrupt(TheOne(last.stored)))

C32_Witness ==
  /\ last.op = "Reconcile" /\ ~last.err
  /\ last.now % TicksPerSec # 0
  /\ WrittenMarkers(last) # {}
  /\ last.after # {} /\ MarkerValid(After) /\ MarkerTime(After) < last.now

\* C33: in the continuous reconciler a namespace whose DeletionTimestamp is
\* already set is skipped: Reconcile calls neither the identity checker nor
\* any store Update/Delete, returns no error and requests no requeue.
C33_TerminatingSkipped ==
  (last.op = "Reconcile" /\ ~last.getErr /\ last.stored # {} /\ last.ns.DeletionTimestamp) =>
     /\ last.idCalls = 0
     /\ last.calls = <<>>
     /\ ~last.retErr
     /\ last.requeueAfter = 0
     /\ last.after = last.stored

C33_Witness ==
  /\ last.op = "Reconcile" /\ ~last.getErr
  /\ last.stored # {} /\ last.ns.DeletionTimestamp
  /\ Has(last.ns.Labels, userEmailLabel) /\ last.ns.Labels[userEmailLabel] # <<>>
  /\ last.res = "absent" /\ ~MarkerPresent(last.ns)
  /\ Logged(last, "Namespace is already being deleted, skipping")

\* the identity check of a Reconcile invocation failed
ReconcileIdentityFailed(o) == Reconciled(o) /\ o.res = "error"

\* C34: in the continuous reconciler a failure of the identity check, of
\* the initial Get (other than not-found), of an Update or of the Delete is
\* returned to the host as an error with an empty result (no RequeueAfter),
\* and in the identity-check and Get failure cases no store mutation has
\* been issued in that invocation.
C34_FailuresReturned ==
  (last.op = "Reconcile") =>
     /\ (last.getErr \/ ReconcileIdentityFailed(last) \/ last.err) =>
           (last.retErr /\ last.requeueAfter = 0)
     /\ (last.getErr \/ ReconcileIdentityFailed(last)) =>
           (last.calls = <<>> /\ last.after = last.stored)
     /\ last.getErr => last.idCalls = 0
     /\ last.retErr => (last.getErr \/ ReconcileIdentityFailed(last) \/ last.err)

C34_Witness ==
  /\ last.op = "Reconcile" /\ ~last.getErr
  /\ last.res = "absent" /\ last.err
  /\ CountCalls(last, "Delete") = 1
  /\ last.retErr /\ last.requeueAfter = 0
  /\ last.after = last.stored /\ last.stored # {}

\* C35: in the continuous reconciler, whenever Reconcile takes the
\* "pending" branch the RequeueAfter it returns is strictly positive, for
\* every interleaving of clock advance between the expiry test (time.Since)
\* and the remaining-duration computation (the second time.Now read): a
\* pending namespace is never left without a scheduled re-check.
C35_PendingRequeuePositive ==
  ReconcilePending(last) => last.requeueAfter > 0

\* C36: eventual reclamation (continuous): while a watched namespace's user
\* stays absent, identity checks and store calls succeed and the clock
\* advances, from the moment the namespace is marked there is always a
\* pending re-invocation (a requeue request or an update-triggered event)
\* until the namespace is deleted, and the namespace is deleted at the
\* first reconcile occurring at or after marker + grace period.
C36_PendingUntilDeleted ==
  /\ ("ns1" \in DOMAIN store /\ MarkerValid(store["ns1"])) =>
        \E r \in items : r.name = "ns1"
  /\ (Reconciled(last) /\ MarkerValid(last.ns)
        /\ last.now >= MarkerTime(last.ns) + cfg.gracePeriod) =>
        (CountCalls(last, "Delete") = 1 /\ last.after = {})

\* the invocation just ended saw the user existing and removed the marker
JustRestored ==
  /\ JustProcessed /\ ~last.err /\ ~cfg.dryRun
  /\ last.res = "exists" /\ MarkerPresent(last.ns)
  /\ CountCalls(last, "Update") = 1

\* C37: the grace period restarts after a restore: when a pass observes the
\* user existing while a marker is present the marker is removed, and when
\* the user is absent again later the namespace is re-marked with the clock
\* of that later pass, so that deletion requires a full grace period from
\* the re-marking; the age of the removed marker never counts toward expiry.
C37_GraceRestartsAfterRestore ==
  JustRestored =>
     /\ ~MarkerPresent(After)
     /\ \A now2 \in clock..MaxClock :
           LET w2 == ProcessNamespace(cfg, NewWorld(store), After, "absent", now2, TRUE)
               ns2 == w2.store[After.Name]
           IN /\ MarkerValid(ns2)
              /\ MarkerTime(ns2) <= now2 /\ now2 - MarkerTime(ns2) < TicksPerSec
              /\ \A now3 \in now2..(MaxClock + MaxGrace + TicksPerSec) :
                    CountCalls(ProcessNamespace(cfg, NewWorld(w2.store), ns2, "absent", now3, TRUE),
                               "Delete") > 0
                       => now3 >= now2 + cfg.gracePeriod

\* no pass from now on issues a store call for ns1
Settled ==
  IF "ns1" \notin DOMAIN store
  THEN ListNamespaces(store, KubeflowLabel) = <<>>
  ELSE \A now2 \in clock..(MaxClock + MaxGrace + TicksPerSec) :
          ProcessNamespace(cfg, NewWorld(store), store["ns1"], cfg.res, now2, TRUE).calls = <<>>

\* C38: bounded convergence: with identity results and store availability
\* held fixed and dry-run off, any sequence of passes issues a bounded
\* number of mutating store calls per namespace: at most one Update when
\* the user exists, at most three mutations (remove corrupt marker, set
\* marker, delete) when the user does not exist; after that every further
\* pass is a no-op for that namespace.
C38_BoundedConvergence ==
  /\ cfg.res = "exists" => (cfg.mutations <= 1 /\ (cfg.mutations = 1 => Settled))
  /\ cfg.res = "absent" => (cfg.mutations <= 3 /\ (cfg.mutations = 3 => Settled))
  /\ cfg.res = "error" => (cfg.mutations = 0 /\ Settled)
  /\ "ns1" \notin DOMAIN store => Settled

C38_Witness ==
  /\ cfg.res = "absent" /\ cfg.mutations = 3
  /\ Processed /\ CountCalls(last, "Delete") = 1
  /\ "ns1" \notin DOMAIN store

\* C39: when ALLOWED_DOMAINS is unset or empty, the domain list produced by
\* loadConfig validates no owner e-mail, so every namespace is treated as
\* unmanaged and none is marked or deleted (in particular an owner value
\* with an empty domain part such as "user@" is not accepted).
C39_NoDomainsNoManagement ==
  Processed =>
     /\ Has(last.ns.Annotations, OwnerAnnotation) =>
           ~isValidDomain(last.ns.Annotations[OwnerAnnotation], cfg.allowedDomains)
     /\ last.idCalls = 0
     /\ last.calls = <<>>
     /\ last.after = last.stored

\* the invocation observed last, run afresh on what it was given: the
\* namespace, the identity result, the clock and the store as they were
Replay(ok) ==
  ProcessNamespace(cfg, NewWorld(StoreOf(last.stored)), last.ns, last.res, last.now, ok)

====
